---- MODULE Spec2Model ----
(***************************************************************************)
(* Model of manager.py, the Huawei modem manager: get_upload_band,         *)
(* wait_for_connection, force_band_setting and the driver loop of main.    *)
(*                                                                         *)
(* The router is the environment.  Every read of router.device.signal      *)
(* returns a telemetry document chosen nondeterministically; the calls     *)
(* that change the router (set_network_mode, set_dataswitch_off/on,        *)
(* set_lte_band) are recorded in the order in which they are issued.       *)
(*                                                                         *)
(* Time is counted in ticks, TicksPerSecond ticks to the second.  The      *)
(* clock advances by exactly one second in time.sleep(1) and by a          *)
(* nondeterministic latency of 0..MaxDelay ticks between the two           *)
(* datetime.now() calls that open wait_for_connection and during every     *)
(* telemetry read of its poll loop.                                        *)
(***************************************************************************)
EXTENDS Integers, Sequences, FiniteSets, TLC

(* ------------------------------ bounds --------------------------------- *)

\* resolution of the model clock
TicksPerSecond == 2

\* largest latency, in ticks, of one telemetry read or of the entry code
MaxDelay == 1

\* largest configured connection_timeout, in seconds
MaxTimeout == 2

\* largest number of configured upload bands
MaxUlBands == 2

(* ------------------------- program constants --------------------------- *)

\* the limit of wait_for_connection's timeout argument
TimeoutLimit == 120

\* the timeout main passes to its first wait_for_connection
StartupTimeout == 1

\* download_bands of the configuration
DownloadBands == <<"B28", "B3", "B7">>

(* --------------------------- Python values ----------------------------- *)

None == "None"

Unbound == "<unbound>"

Return(v) == [kind |-> "return", val |-> v, cls |-> "", msg |-> ""]

Raise(c, m) == [kind |-> "raise", val |-> "", cls |-> c, msg |-> m]

NoOutcome == [kind |-> "none", val |-> "", cls |-> "", msg |-> ""]

\* the exception classes the program meets, each with its base class
BaseClass(c) ==
    CASE c = "NotImplementedError" -> "RuntimeError"
      [] c = "RuntimeError"        -> "Exception"
      [] c = "UnboundLocalError"   -> "NameError"
      [] c = "NameError"           -> "Exception"
      [] OTHER                     -> "BaseException"

\* mutant: a handler catches the class it names and no subclass of it
IsInstance_Exact(c, base) == c = base

RECURSIVE IsInstance(_, _)
IsInstance(c, base) ==
    IF c = base THEN TRUE
    ELSE IF c = "BaseException" THEN FALSE
    ELSE IsInstance(BaseClass(c), base)

(* ------------------------ telemetry documents -------------------------- *)

\* band numbers the router reports in the text of its <band> element
BandNumbers == {"28", "3"}

Elem(tag, text) == [tag |-> tag, text |-> text]

\* router.device.signal: the children of the document's root, in order
SignalDocs ==
    {<<Elem("rsrp", "-95dBm")>>}
    \cup {<<Elem("rsrp", "-95dBm"), Elem("band", None)>>}
    \cup {<<Elem("rsrp", "-95dBm"), Elem("band", n)>> : n \in BandNumbers}
    \cup {<<Elem("band", n), Elem("band", None)>> : n \in BandNumbers}

RECURSIVE FirstBand(_, _)
FirstBand(doc, i) ==
    IF i > Len(doc) THEN 0
    ELSE IF doc[i].tag = "band" THEN i
    ELSE FirstBand(doc, i + 1)

NoBandEntry == Raise("RuntimeError", "No band entry in device signal.")

get_upload_band(doc, numerical) ==
    LET i == FirstBand(doc, 1) IN
    IF i = 0 THEN NoBandEntry
    ELSE IF doc[i].text # None
         THEN IF numerical THEN Return(doc[i].text)
              ELSE Return("B" \o doc[i].text)
         ELSE Return(None)

(* ------------------- Router Control Interface calls -------------------- *)

SignalCall(doc) ==
    [op |-> "signal", arg |-> "", bands |-> <<>>, res |-> get_upload_band(doc, FALSE)]

SetNetworkMode(mode) ==
    [op |-> "set_network_mode", arg |-> mode, bands |-> <<>>, res |-> NoOutcome]

SetDataswitchOff ==
    [op |-> "set_dataswitch", arg |-> "off", bands |-> <<>>, res |-> NoOutcome]

SetDataswitchOn ==
    [op |-> "set_dataswitch", arg |-> "on", bands |-> <<>>, res |-> NoOutcome]

SetLteBand(bands) ==
    [op |-> "set_lte_band", arg |-> "", bands |-> bands, res |-> NoOutcome]

force_4g == <<SetNetworkMode("4G")>>

toggle_data_off_on == <<SetDataswitchOff, SetDataswitchOn>>

set_upload_bands(bands) == <<SetLteBand(bands)>>

(* ------------------------------- state --------------------------------- *)

VARIABLES
    entry,              \* "main", or "wait_for_connection" called on its own
    upload_bands,       \* configuration: upload_bands
    connection_timeout, \* configuration: connection_timeout
    pc,                 \* the line the program is at
    ret,                \* the line wait_for_connection returns to
    timeout,            \* wait_for_connection: its argument
    now,                \* ticks since wait_for_connection read start
    polls,              \* wait_for_connection: telemetry reads so far
    ideal,              \* no latency has been added to the clock so far
    ul_band,            \* wait_for_connection: its local ul_band
    wfcResult,          \* outcome of the last wait_for_connection
    firstWfc,           \* force_band_setting: outcome of its first wait
    checkedBand,        \* force_band_setting: outcome of the read of line 160
    calls,              \* router calls since the current call began: those of
                        \* the current force_band_setting, or those of the
                        \* run before its first force_band_setting
    fbsResult,          \* outcome of the last force_band_setting
    lastRead,           \* outcome of the last get_upload_band
    invoked,            \* force_band_setting has been called in this run
    enforced,           \* a call that changes the router was issued in this run
    loggedIn,           \* router.login succeeded and logout was not called
    logouts,            \* number of router.logout calls
    lastLog,            \* the last message main passed to logger
    exc,                \* the exception that ended the process, if any
    settled             \* the router stays attached to upload_bands[0] from now on

config == <<entry, upload_bands, connection_timeout>>

wfcVars == <<ret, timeout, now, polls, ideal, ul_band, wfcResult>>

fbsVars == <<firstWfc, checkedBand, calls, fbsResult, invoked>>

mainVars == <<enforced, loggedIn, logouts, lastLog, exc>>

vars == <<config, pc, wfcVars, fbsVars, mainVars, lastRead, settled>>

(* ----------------------------- configuration --------------------------- *)

\* upload_bands: the first n bands of download_bands
UlConfigs == {SubSeq(DownloadBands, 1, n) : n \in 1..MaxUlBands}

\* timeouts wait_for_connection is called with when it is called on its own
Timeouts == (-1 .. MaxTimeout) \cup {TimeoutLimit, TimeoutLimit + 1, TimeoutLimit + 2}

Range(s) == {s[i] : i \in DOMAIN s}

Init ==
    /\ entry \in {"main", "wait_for_connection"}
    /\ IF entry = "main"
       THEN /\ upload_bands \in UlConfigs
            /\ connection_timeout \in 1..MaxTimeout
            /\ pc = "m_196"
            /\ ret = ""
            /\ timeout = 0
       ELSE /\ upload_bands = SubSeq(DownloadBands, 1, 1)
            /\ connection_timeout = 1
            /\ pc = "w_108"
            /\ ret = "h_ret"
            /\ timeout \in Timeouts
    /\ now = 0
    /\ polls = 0
    /\ ideal = TRUE
    /\ ul_band = Unbound
    /\ wfcResult = NoOutcome
    /\ firstWfc = NoOutcome
    /\ checkedBand = NoOutcome
    /\ calls = <<>>
    /\ fbsResult = NoOutcome
    /\ lastRead = NoOutcome
    /\ invoked = FALSE
    /\ enforced = FALSE
    /\ loggedIn = FALSE
    /\ logouts = 0
    /\ lastLog = ""
    /\ exc = NoOutcome
    /\ settled = FALSE

(* ------------------------- wait_for_connection ------------------------- *)

\* mutant: the limit is off by one second
TimeoutRejected_OffByOne(t) == t > TimeoutLimit + 1

\* line 108: timeout > 120
TimeoutRejected(t) == t > TimeoutLimit

\* mutant: the loop allows itself one more second
PastDeadline_Late(n, e) == n > e + TicksPerSecond

\* line 114: datetime.now() > end
PastDeadline(n, e) == n > e

\* mutant: the test of the connectivity result is inverted
NotConnected_Inverted(o) == o.val = "True"

\* lines 148, 152, 164, 200: not wait_for_connection(...)
NotConnected(o) == o.val = "False"

\* a call of wait_for_connection(router, t) that returns to line r
CallWfc(t, r) ==
    /\ pc' = "w_108"
    /\ timeout' = t
    /\ ret' = r

\* mutant: wait_for_connection catches the exception of a telemetry read and
\* reports 'not connected'
WfcLeaves_Swallowed(o) ==
    /\ wfcResult' = IF o.kind = "raise" THEN Return("False") ELSE o
    /\ pc' = ret
    /\ UNCHANGED <<fbsResult, exc>>

\* wait_for_connection ends with outcome o: a return continues at the call
\* site; an exception leaves force_band_setting as well when the call site
\* is there, and ends the process when the call site is in main
WfcLeaves(o) ==
    /\ wfcResult' = o
    /\ IF o.kind = "return" \/ ret = "h_ret"
       THEN pc' = ret /\ UNCHANGED <<fbsResult, exc>>
       ELSE IF ret = "m_200"
            THEN pc' = "crashed" /\ exc' = o /\ UNCHANGED fbsResult
            ELSE pc' = "m_231" /\ fbsResult' = o /\ UNCHANGED exc

TimeoutTooLarge == Raise("RuntimeError", "Timeout value is too large.")

\* lines 108-111: the check of the argument, start and end
WFC_Enter(d) ==
    /\ pc = "w_108"
    /\ IF TimeoutRejected(timeout)
       THEN /\ WfcLeaves(TimeoutTooLarge)
            /\ UNCHANGED <<now, polls, ideal, ul_band>>
       ELSE /\ now' = d
            /\ polls' = 0
            /\ ideal' = (d = 0)
            /\ ul_band' = Unbound
            /\ pc' = "w_114"
            /\ UNCHANGED <<wfcResult, fbsResult, exc>>
    /\ UNCHANGED <<config, ret, timeout, firstWfc, checkedBand, calls, invoked,
                   lastRead,
                   enforced, loggedIn, logouts, lastLog>>
    /\ UNCHANGED settled

\* end, in ticks since start
Deadline == timeout * TicksPerSecond

\* line 122: return ul_band is not None
WfcReturn(band) ==
    IF band = Unbound
    THEN Raise("UnboundLocalError",
               "local variable 'ul_band' referenced before assignment")
    ELSE Return(IF band # None THEN "True" ELSE "False")

\* lines 114-116 and 122: the deadline has passed
WFC_Timeout ==
    /\ pc = "w_114"
    /\ PastDeadline(now, Deadline)
    /\ lastLog' = "was unable to connect to an antenna."
    /\ WfcLeaves(WfcReturn(ul_band))
    /\ UNCHANGED <<config, ret, timeout, now, polls, ideal, ul_band,
                   firstWfc, checkedBand, calls, invoked, lastRead, enforced,
                   loggedIn, logouts>>
    /\ UNCHANGED settled

\* lines 114, 118-122: one poll, and the sleep that follows it
WFC_Poll(doc, d) ==
    /\ pc = "w_114"
    /\ ~PastDeadline(now, Deadline)
    /\ LET r == get_upload_band(doc, FALSE) IN
       /\ calls' = Append(calls, SignalCall(doc))
       /\ lastRead' = r
       /\ polls' = polls + 1
       /\ ideal' = (ideal /\ d = 0)
       /\ IF r.kind = "raise"
          THEN /\ now' = now + d
               /\ WfcLeaves(r)
               /\ UNCHANGED ul_band
          ELSE IF r.val # None
          THEN /\ now' = now + d
               /\ ul_band' = r.val
               /\ WfcLeaves(WfcReturn(r.val))
          ELSE /\ now' = now + d + TicksPerSecond
               /\ ul_band' = r.val
               /\ pc' = "w_114"
               /\ UNCHANGED <<wfcResult, fbsResult, exc>>
    /\ UNCHANGED <<config, ret, timeout, firstWfc, checkedBand, invoked,
                   enforced, loggedIn, logouts, lastLog>>
    /\ UNCHANGED settled

(* -------------------------- force_band_setting ------------------------- *)

\* mutant: the check lets two upload bands through
TooManyUploadBands_Two(ul_bands) == Len(ul_bands) > 2

\* line 145: len(ul_bands) > 1
TooManyUploadBands(ul_bands) == Len(ul_bands) > 1

\* mutant: the band is compared as if it were read in its numerical form
BandIn_Numerical(band, ul_bands) == ("B" \o band) \in Range(ul_bands)

\* lines 160, 166: get_upload_band(router) in ul_bands
BandIn(band, ul_bands) == band \in Range(ul_bands)

\* mutant: the two band lists are applied in the other order
ApplyBands_Swapped(ul_bands, dl_bands) ==
    set_upload_bands(dl_bands) \o set_upload_bands(ul_bands)

\* lines 162-163: the band list is set to ul_bands, then to dl_bands
ApplyBands(ul_bands, dl_bands) ==
    set_upload_bands(ul_bands) \o set_upload_bands(dl_bands)

\* force_band_setting ends with outcome o, inside the try of main
FbsLeaves(o) ==
    /\ fbsResult' = o
    /\ pc' = "m_231"

\* lines 145-148: the check of ul_bands and the first connectivity test
FBS_Enter ==
    /\ pc = "f_145"
    /\ IF TooManyUploadBands(upload_bands)
       THEN /\ FbsLeaves(Raise("NotImplementedError", ""))
            /\ UNCHANGED <<ret, timeout>>
       ELSE /\ CallWfc(connection_timeout, "f_148")
            /\ UNCHANGED fbsResult
    /\ UNCHANGED <<config, now, polls, ideal, ul_band, wfcResult, firstWfc,
                   checkedBand, calls, invoked, lastRead, mainVars>>
    /\ UNCHANGED settled

\* lines 148-152: the corrective unit and the second connectivity test
FBS_Correct ==
    /\ pc = "f_148"
    /\ firstWfc' = wfcResult
    /\ IF NotConnected(wfcResult)
       THEN /\ lastLog' = "is not connected yet. Forcing 4G and toggling antennas off/on."
            /\ calls' = calls \o force_4g \o toggle_data_off_on
            /\ enforced' = TRUE
       ELSE UNCHANGED <<lastLog, calls, enforced>>
    /\ CallWfc(connection_timeout, "f_152")
    /\ UNCHANGED <<config, now, polls, ideal, ul_band, wfcResult, fbsResult,
                   checkedBand, invoked, lastRead, loggedIn, logouts, exc>>
    /\ UNCHANGED settled

\* lines 152-164: the band read and the two band lists
FBS_SetBands(doc) ==
    /\ pc = "f_152"
    /\ IF NotConnected(wfcResult)
       THEN /\ FbsLeaves(Raise("RuntimeError", "Could not acquire any antenna #1."))
            /\ UNCHANGED <<ret, timeout, calls, lastRead, checkedBand, enforced>>
       ELSE LET r == get_upload_band(doc, FALSE) IN
            /\ lastRead' = r
            /\ checkedBand' = r
            /\ IF r.kind = "raise"
               THEN /\ calls' = Append(calls, SignalCall(doc))
                    /\ FbsLeaves(r)
                    /\ UNCHANGED <<ret, timeout, enforced>>
               ELSE IF BandIn(r.val, upload_bands)
               THEN /\ calls' = Append(calls, SignalCall(doc))
                    /\ FbsLeaves(Return("True"))
                    /\ UNCHANGED <<ret, timeout, enforced>>
               ELSE /\ calls' = Append(calls, SignalCall(doc))
                                  \o ApplyBands(upload_bands, DownloadBands)
                    /\ enforced' = TRUE
                    /\ CallWfc(connection_timeout, "f_164")
                    /\ UNCHANGED fbsResult
    /\ UNCHANGED <<config, now, polls, ideal, ul_band, wfcResult, firstWfc,
                   invoked, loggedIn, logouts, lastLog, exc>>
    /\ UNCHANGED settled

\* lines 164-166: the last connectivity test and the result
FBS_Result(doc) ==
    /\ pc = "f_164"
    /\ IF NotConnected(wfcResult)
       THEN /\ FbsLeaves(Raise("RuntimeError", "Could not acquire any antenna #2."))
            /\ UNCHANGED <<calls, lastRead>>
       ELSE LET r == get_upload_band(doc, FALSE) IN
            /\ lastRead' = r
            /\ calls' = Append(calls, SignalCall(doc))
            /\ IF r.kind = "raise"
               THEN FbsLeaves(r)
               ELSE FbsLeaves(Return(IF BandIn(r.val, upload_bands)
                                     THEN "True" ELSE "False"))
    /\ UNCHANGED <<config, wfcVars, firstWfc, checkedBand, invoked, mainVars>>
    /\ UNCHANGED settled

(* --------------------------------- main -------------------------------- *)

\* mutant: any attached band counts as the desired band
IsDesiredBand_Attached(band, ul_bands) == band # None

\* mutant: the band read is taken to be in its numerical form
IsDesiredBand_Numerical(band, ul_bands) == ("B" \o band) = ul_bands[1]

\* mutant: any of the upload bands counts as the desired band
IsDesiredBand_Any(band, ul_bands) == band \in Range(ul_bands)

\* lines 204, 228: get_upload_band(router) == upload_bands[0]
IsDesiredBand(band, ul_bands) == band = ul_bands[1]

\* lines 194-200: login and the first connectivity test
Main_Start ==
    /\ pc = "m_196"
    /\ loggedIn' = TRUE
    /\ lastLog' = "Starting monitoring."
    /\ CallWfc(StartupTimeout, "m_200")
    /\ UNCHANGED <<config, now, polls, ideal, ul_band, wfcResult, fbsVars,
                   lastRead, enforced, logouts, exc>>
    /\ UNCHANGED settled

\* lines 200-207: the band at startup
Main_Startup(doc) ==
    /\ pc = "m_200"
    /\ LET r == get_upload_band(doc, FALSE) IN
       /\ lastRead' = r
       /\ calls' = Append(calls, SignalCall(doc))
       /\ IF r.kind = "raise"
          THEN /\ pc' = "crashed"
               /\ exc' = r
               /\ lastLog' = IF NotConnected(wfcResult)
                             THEN "is not connected yet" ELSE lastLog
               /\ UNCHANGED <<loggedIn, logouts>>
          ELSE IF IsDesiredBand(r.val, upload_bands)
          THEN /\ pc' = "exited"
               /\ lastLog' = "is properly set up, exiting."
               /\ loggedIn' = FALSE
               /\ logouts' = logouts + 1
               /\ UNCHANGED exc
          ELSE /\ pc' = "m_228"
               /\ lastLog' = IF NotConnected(wfcResult)
                             THEN "is not connected yet" ELSE lastLog
               /\ UNCHANGED <<loggedIn, logouts, exc>>
    /\ UNCHANGED <<config, wfcVars, firstWfc, checkedBand, fbsResult, invoked,
                   enforced>>
    /\ UNCHANGED settled

\* lines 228 and 238-240: the loop condition, and the end of the run
Main_Loop(doc) ==
    /\ pc = "m_228"
    /\ LET r == get_upload_band(doc, FALSE) IN
       /\ lastRead' = r
       /\ IF r.kind = "raise"
          THEN /\ pc' = "crashed"
               /\ exc' = r
               /\ UNCHANGED <<lastLog, loggedIn, logouts>>
          ELSE IF ~(~IsDesiredBand(r.val, upload_bands))
          THEN /\ pc' = "done"
               /\ lastLog' = "is properly set up."
               /\ loggedIn' = FALSE
               /\ logouts' = logouts + 1
               /\ UNCHANGED exc
          ELSE /\ pc' = "m_229"
               /\ UNCHANGED <<lastLog, loggedIn, logouts, exc>>
    /\ UNCHANGED <<config, wfcVars, fbsVars, enforced, settled>>

\* lines 229-231: the band read for the log, and the call of
\* force_band_setting
Main_Force(logdoc) ==
    /\ pc = "m_229"
    /\ LET l == get_upload_band(logdoc, FALSE) IN
       /\ lastRead' = l
       /\ IF l.kind = "raise"
          THEN /\ pc' = "crashed"
               /\ exc' = l
               /\ UNCHANGED <<calls, firstWfc, checkedBand, fbsResult,
                              invoked, lastLog>>
          ELSE /\ pc' = "f_145"
               /\ lastLog' = "is using a wrong upload band. Forcing instead."
               /\ calls' = <<>>
               /\ firstWfc' = NoOutcome
               /\ checkedBand' = NoOutcome
               /\ fbsResult' = NoOutcome
               /\ invoked' = TRUE
               /\ UNCHANGED exc
    /\ UNCHANGED <<config, wfcVars, enforced, loggedIn, logouts, settled>>

NoAntennaLog ==
    "Attempt to force bands failed: no antenna signal. Consider setting LTE bands to auto in the web interface"

\* lines 231-236: the result of force_band_setting and the two handlers
Main_Handle ==
    /\ pc = "m_231"
    /\ LET raised == IF fbsResult.kind = "return" /\ fbsResult.val = "False"
                     THEN Raise("Exception", "Forcing bands failed.")
                     ELSE fbsResult
       IN
       IF raised.kind = "return"
       THEN pc' = "m_228" /\ UNCHANGED <<lastLog, exc>>
       ELSE IF IsInstance(raised.cls, "RuntimeError")
       THEN pc' = "m_228" /\ lastLog' = NoAntennaLog /\ UNCHANGED exc
       ELSE IF IsInstance(raised.cls, "Exception")
       THEN pc' = "m_228" /\ lastLog' = raised.msg \o ", retrying..." /\ UNCHANGED exc
       ELSE pc' = "crashed" /\ exc' = raised /\ UNCHANGED lastLog
    /\ UNCHANGED <<config, wfcVars, fbsVars, lastRead, enforced, loggedIn,
                   logouts>>
    /\ UNCHANGED settled

(* ---------------------------- specification ---------------------------- *)

\* the documents in which the router reports band
DocsOf(band) == {doc \in SignalDocs : get_upload_band(doc, FALSE) = Return(band)}

\* the documents a telemetry read can return
Telemetry == IF settled THEN DocsOf(upload_bands[1]) ELSE SignalDocs

Next ==
    \/ \E d \in 0..MaxDelay : WFC_Enter(d)
    \/ WFC_Timeout
    \/ \E doc \in Telemetry, d \in 0..MaxDelay : WFC_Poll(doc, d)
    \/ FBS_Enter
    \/ FBS_Correct
    \/ \E doc \in Telemetry : FBS_SetBands(doc)
    \/ \E doc \in Telemetry : FBS_Result(doc)
    \/ Main_Start
    \/ \E doc \in Telemetry : Main_Startup(doc)
    \/ \E doc \in Telemetry : Main_Loop(doc)
    \/ \E logdoc \in Telemetry : Main_Force(logdoc)
    \/ Main_Handle

Spec == Init /\ [][Next]_vars

\* the router attaches to upload_bands[0] and stays there
Settle ==
    /\ ~settled
    /\ settled' = TRUE
    /\ UNCHANGED <<config, pc, wfcVars, fbsVars, mainVars, lastRead>>

NextSettling == Next \/ Settle

\* a run of main with one upload band and the shortest connection_timeout
LiveInit ==
    /\ Init
    /\ entry = "main"
    /\ Len(upload_bands) = 1
    /\ connection_timeout = 1

\* every step of the program that can be taken is eventually taken; the
\* router is under no obligation
LiveSpec == LiveInit /\ [][NextSettling]_vars /\ WF_vars(Next)

TypeOK ==
    /\ pc \in {"m_196", "m_200", "m_228", "m_229", "m_231", "f_145", "f_148", "f_152",
               "f_164", "w_108", "w_114", "h_ret", "exited", "done", "crashed"}
    /\ logouts \in 0..1
    /\ polls \in Nat

(* ------------------------------ properties ----------------------------- *)

\* the calls of one kind among the recorded router calls
CallsOf(op) == SelectSeq(calls, LAMBDA c : c.op = op)

\* the recorded calls other than telemetry reads
Changes == SelectSeq(calls, LAMBDA c : c.op # "signal")

\* every recorded telemetry read returned band
AllReads(band) ==
    \A i \in DOMAIN calls : calls[i].op = "signal" => calls[i].res = Return(band)

\* the recorded calls contain s as a block of adjacent calls
Adjacent(s) ==
    \E i \in 0..(Len(calls) - Len(s)) : SubSeq(calls, i + 1, i + Len(s)) = s

\* force_band_setting has just ended
FbsEnded == pc = "m_231"

\* the corrective unit, and the two band lists, as force_band_setting issues them
CorrectiveUnit == <<SetNetworkMode("4G"), SetDataswitchOff, SetDataswitchOn>>

BandLists == <<SetLteBand(upload_bands), SetLteBand(DownloadBands)>>

AntennaError(n) ==
    Raise("RuntimeError", "Could not acquire any antenna #" \o n \o ".")

\* C1: a call of force_band_setting with more than one upload band fails
\* with NotImplementedError and issues no router call of any kind: the
\* program is never inside the body of force_band_setting or in one of its
\* waits, nothing is recorded and nothing has changed the router.
C1_UnsupportedIssuesNoCall ==
    (invoked /\ Len(upload_bands) > 1) =>
        /\ pc \in {"f_145", "m_231", "m_228", "m_229", "done", "crashed"}
        /\ calls = <<>>
        /\ ~enforced
        /\ FbsEnded => fbsResult = Raise("NotImplementedError", "")

C1_Witness ==
    /\ FbsEnded
    /\ Len(upload_bands) > 1
    /\ fbsResult.cls = "NotImplementedError"

\* C2: when every telemetry read of a call of force_band_setting with a
\* single upload band reports that band, the call returns True and has
\* issued telemetry reads only.
C2_Idempotent ==
    (FbsEnded /\ Len(upload_bands) = 1 /\ AllReads(upload_bands[1])) =>
        /\ fbsResult = Return("True")
        /\ Changes = <<>>
        /\ \A i \in DOMAIN calls : calls[i].op = "signal"

C2_Witness ==
    /\ FbsEnded
    /\ Len(upload_bands) = 1
    /\ calls # <<>>
    /\ AllReads(upload_bands[1])
    /\ fbsResult = Return("True")

\* C3: in a call of force_band_setting the corrective unit is issued exactly
\* when the first connectivity test returned False, and then once, as the
\* adjacent calls set_network_mode('4G'), set_dataswitch_off,
\* set_dataswitch_on; a call all of whose telemetry reads report no band ends
\* with 'Could not acquire any antenna #1.' after one such unit and without
\* a band list.
C3_CorrectiveUnit ==
    invoked =>
        /\ IF firstWfc = Return("False")
           THEN /\ SelectSeq(Changes, LAMBDA c : c.op # "set_lte_band") = CorrectiveUnit
                /\ Adjacent(CorrectiveUnit)
           ELSE SelectSeq(Changes, LAMBDA c : c.op # "set_lte_band") = <<>>
        /\ (FbsEnded /\ calls # <<>> /\ AllReads(None)) =>
               /\ fbsResult = AntennaError("1")
               /\ Changes = CorrectiveUnit
               /\ CallsOf("set_lte_band") = <<>>

C3_Witness ==
    /\ FbsEnded
    /\ calls # <<>>
    /\ AllReads(None)
    /\ firstWfc = Return("False")
    /\ fbsResult = AntennaError("1")
    /\ Adjacent(CorrectiveUnit)

\* force_band_setting has reached step 4: its second connectivity test
\* succeeded and the band it then read is not one of ul_bands
ReachedStep4 ==
    /\ checkedBand.kind = "return"
    /\ checkedBand.val \notin Range(upload_bands)

\* C4: a call of force_band_setting that reaches step 4 issues two
\* set_lte_band calls, the first with ul_bands and the second with dl_bands,
\* one right after the other and right after the band read; every other call
\* issues none.
C4_TwoBandLists ==
    invoked =>
        IF ReachedStep4
        THEN /\ CallsOf("set_lte_band") = BandLists
             /\ Adjacent(<<[op |-> "signal", arg |-> "", bands |-> <<>>,
                            res |-> checkedBand]>> \o BandLists)
        ELSE CallsOf("set_lte_band") = <<>>

C4_Witness ==
    /\ FbsEnded
    /\ ReachedStep4
    /\ checkedBand.val # None
    /\ Adjacent(BandLists)

\* the outcome of the last recorded telemetry read
FinalRead ==
    LET reads == CallsOf("signal") IN
    IF reads = <<>> THEN NoOutcome ELSE reads[Len(reads)].res

\* C5: after the two band lists, force_band_setting fails with 'Could not
\* acquire any antenna #2.' exactly when the last telemetry read of the call
\* reports no band, returns True exactly when it reports the desired upload
\* band, and returns False only when it reports another band.
C5_OutcomeTellsDetachedFromWrongBand ==
    (FbsEnded /\ Len(upload_bands) = 1 /\ CallsOf("set_lte_band") # <<>>
        /\ FinalRead.kind = "return") =>
        /\ fbsResult = AntennaError("2") <=> FinalRead.val = None
        /\ fbsResult = Return("True") <=> FinalRead.val = upload_bands[1]
        /\ fbsResult = Return("False") =>
               FinalRead.val \notin {None, upload_bands[1]}

\* wait_for_connection was called on its own and has ended
WfcEnded == entry = "wait_for_connection" /\ pc = "h_ret"

\* C6: wait_for_connection with a timeout above 120 fails with
\* RuntimeError('Timeout value ... is too large.') and has neither read the
\* telemetry nor slept: no poll is counted, no call is recorded and the
\* clock has not moved.
C6_TimeoutTooLarge ==
    timeout > 120 =>
        /\ pc \in {"w_108", "h_ret"}
        /\ polls = 0
        /\ calls = <<>>
        /\ now = 0
        /\ pc = "h_ret" => wfcResult = TimeoutTooLarge

C6_Witness ==
    /\ WfcEnded
    /\ timeout = 121
    /\ wfcResult = TimeoutTooLarge

\* C7: wait_for_connection with a timeout from 0 to 120 and telemetry that
\* always has a band entry ends by returning a boolean, True exactly when a
\* poll observed a band, and the band it observed is its last poll.
C7_ReturnsBoolean ==
    (WfcEnded /\ 0 <= timeout /\ timeout <= 120
        /\ \A i \in DOMAIN calls : calls[i].res.kind = "return") =>
        /\ wfcResult \in {Return("True"), Return("False")}
        /\ wfcResult = Return("True") <=>
               \E i \in DOMAIN calls : calls[i].res.val # None
        /\ \A i \in 1..(Len(calls) - 1) : calls[i].res.val = None

\* C8: on a clock that moves in time.sleep(1) only, wait_for_connection with
\* a timeout t, 0 < t <= 120, has made at most t+1 polls and is at most t+1
\* seconds after its start, while it runs and when it has ended.
C8_BoundedResponse ==
    (pc # "w_108" /\ ideal /\ 0 < timeout /\ timeout <= 120) =>
        /\ polls <= timeout + 1
        /\ now <= (timeout + 1) * TicksPerSecond

C8_Witness ==
    /\ WfcEnded
    /\ ideal
    /\ timeout = MaxTimeout
    /\ wfcResult = Return("False")
    /\ polls = timeout + 1
    /\ now = (timeout + 1) * TicksPerSecond

HasBandEntry(doc) == \E i \in DOMAIN doc : doc[i].tag = "band"

\* the text of the first band entry of a document that has one
BandText(doc) ==
    doc[CHOOSE i \in DOMAIN doc :
            /\ doc[i].tag = "band"
            /\ \A j \in 1..(i - 1) : doc[j].tag # "band"].text

\* C9: get_upload_band raises RuntimeError('No band entry in device
\* signal.') on a document without band entry, returns None on an empty band
\* entry and the band on a band entry with a value; when a telemetry read
\* raises inside wait_for_connection or force_band_setting, that exception is
\* the outcome of the call: of force_band_setting in the try of main, of the
\* process when main made the call, of wait_for_connection called on its own.
C9_NoBandEntryPropagates ==
    /\ \A doc \in SignalDocs :
          LET r == get_upload_band(doc, FALSE) IN
          IF ~HasBandEntry(doc)
          THEN r.kind = "raise" /\ r.cls = "RuntimeError"
          ELSE /\ r.kind = "return"
               /\ r.val = None <=> BandText(doc) = None
               /\ r.val # None =>
                      /\ r.val = "B" \o BandText(doc)
                      /\ get_upload_band(doc, TRUE).val = BandText(doc)
    /\ (calls # <<>> /\ calls[Len(calls)].res.kind = "raise") =>
          /\ calls[Len(calls)].res = NoBandEntry
          /\ \/ invoked /\ pc # "f_145" /\ fbsResult = NoBandEntry
             \/ ~invoked /\ entry = "main" /\ pc = "crashed" /\ exc = NoBandEntry
             \/ WfcEnded /\ wfcResult = NoBandEntry

\* a read without band entry inside a wait of force_band_setting
C9_Witness ==
    /\ FbsEnded
    /\ calls # <<>>
    /\ calls[Len(calls)].res = NoBandEntry
    /\ wfcResult = NoBandEntry
    /\ fbsResult = NoBandEntry

\* C10: a run of main in which the band read at startup is upload_bands[0]
\* ends at sys.exit() after one logout, without a call of force_band_setting
\* and without a call that changes the router; a run that goes on to the
\* loop has read another band at startup.
C10_StartupExit ==
    /\ pc = "exited" =>
          /\ lastRead = Return(upload_bands[1])
          /\ logouts = 1
          /\ ~loggedIn
          /\ ~invoked
          /\ ~enforced
          /\ exc = NoOutcome
          /\ \A i \in DOMAIN calls : calls[i].op = "signal"
    /\ (entry = "main" /\ ~invoked /\ pc = "m_228") =>
          lastRead # Return(upload_bands[1])

C10_Witness ==
    /\ pc = "exited"
    /\ lastRead = Return(upload_bands[1])
    /\ logouts = 1

\* the band main wants, as the loop condition compares it
Desired == Return(upload_bands[1])

\* C11, as claimed: a call of force_band_setting that returned True is the
\* last call of the run, and the loop does not end right after a call that
\* failed.
C11_SuccessEndsLoop ==
    [][(invoked /\ pc = "m_228") =>
          /\ fbsResult = Return("True") => pc' # "m_229"
          /\ pc' = "done" => fbsResult = Return("True")]_vars

\* C11, amended: the loop ends exactly when the read of its condition
\* reports upload_bands[0], whatever the last call of force_band_setting
\* returned or raised; so a call that returned True is the last call of the
\* run when that read still reports upload_bands[0], and is followed by
\* another call when it reports another band or none.
C11_ConditionReadEndsLoop ==
    [][pc = "m_228" =>
          /\ pc' = "done" <=> lastRead' = Desired
          /\ pc' = "m_229" =>
                 /\ lastRead'.kind = "return"
                 /\ lastRead' # Desired
          /\ pc' \in {"done", "m_229", "crashed"}]_vars

\* the loop has ended after a call that returned True
C11_Witness ==
    /\ pc = "done"
    /\ invoked
    /\ fbsResult = Return("True")
    /\ lastRead = Desired

\* C12: main logs the 'no antenna signal' diagnostic only for a call of
\* force_band_setting that failed with 'Could not acquire any antenna', never
\* for NotImplementedError, for a timeout that is too large or for a
\* telemetry document without band entry.
C12_NoAntennaLogOnlyForNoAntenna ==
    lastLog = NoAntennaLog => fbsResult \in {AntennaError("1"), AntennaError("2")}

\* C13: every outcome of force_band_setting in the loop, True excepted, is
\* caught and logged by one of the two handlers and followed by another
\* evaluation of the loop condition, which can always be made; the process
\* ends abnormally only by the exception of a telemetry read of main, never
\* because its attempts are used up.
C13_EveryFailureRetried ==
    /\ [](pc = "crashed" => (exc = NoBandEntry /\ lastRead = NoBandEntry))
    /\ [](pc \in {"m_228", "m_229", "m_231", "f_145"} => ENABLED Next)
    /\ []((invoked /\ pc = "m_229") => ENABLED (Next /\ pc' = "f_145"))
    /\ [][pc = "m_231" =>
             /\ pc' = "m_228"
             /\ fbsResult # Return("True") =>
                    lastLog' \in {NoAntennaLog, "Forcing bands failed., retrying..."}]_vars

\* another call of force_band_setting begins after a call that changed the
\* router, and the call before it failed for want of an antenna
C13_Witness ==
    /\ pc = "f_145"
    /\ calls = <<>>
    /\ enforced
    /\ wfcResult = Return("False")

\* main has ended normally: it has logged that the router is properly set up
\* and has called logout
EndedNormally ==
    /\ pc \in {"done", "exited"}
    /\ logouts = 1
    /\ ~loggedIn
    /\ lastLog \in {"is properly set up.", "is properly set up, exiting."}

\* C14: with one configured upload band, once the router stays attached to
\* that band (so that every telemetry read has a band entry and reports it),
\* a run of main that has not been ended by an exception leaves the loop,
\* logs that the router is properly set up, calls logout and ends normally,
\* provided the program keeps taking its steps.
C14_LateConvergence ==
    (settled /\ entry = "main" /\ Len(upload_bands) = 1 /\ pc # "crashed")
        ~> EndedNormally

\* the router settled during the loop and main ended after the loop
C14_Witness ==
    /\ settled
    /\ entry = "main"
    /\ Len(upload_bands) = 1
    /\ invoked
    /\ enforced
    /\ pc = "done"
    /\ EndedNormally

\* the run of main has ended, normally or by an exception
MainEnded == entry = "main" /\ pc \in {"done", "exited", "crashed"}

\* C15: a run of main that has ended, by either normal exit or by the
\* exception of a telemetry read, has called logout exactly once and holds
\* no session any more.
C15_SessionReleased ==
    MainEnded => (logouts = 1 /\ ~loggedIn)

\* C16: a band read from the telemetry compares alike with the desired band
\* written as 'n' and written as 'Bn', in force_band_setting (lines 160, 166)
\* and in main (lines 204, 228), for every band n.
C16_BothFormsCompareAlike ==
    lastRead.kind = "return" =>
        \A n \in BandNumbers :
            /\ BandIn(lastRead.val, <<n>>) = BandIn(lastRead.val, <<"B" \o n>>)
            /\ IsDesiredBand(lastRead.val, <<n>>)
                   = IsDesiredBand(lastRead.val, <<"B" \o n>>)

\* C17: a call of force_band_setting fails with 'Could not acquire any
\* antenna #1.' only when its first connectivity test returned False and the
\* corrective unit was issued.
C17_FirstAntennaErrorAfterCorrection ==
    (FbsEnded /\ fbsResult = AntennaError("1")) =>
        /\ firstWfc = Return("False")
        /\ Adjacent(CorrectiveUnit)

\* the position of the first set_lte_band among the recorded calls
FirstBandList ==
    CHOOSE i \in DOMAIN calls :
        /\ calls[i].op = "set_lte_band"
        /\ \A j \in 1..(i - 1) : calls[j].op # "set_lte_band"

\* C18: when force_band_setting has issued set_lte_band, the telemetry read
\* right before the first set_lte_band reported a band, one that is not in
\* ul_bands, and an earlier read of the call observed a band as well (a
\* connectivity test returned True).
C18_BandListsNeedAttachment ==
    (invoked /\ CallsOf("set_lte_band") # <<>>) =>
        LET i == FirstBandList IN
        /\ i > 2
        /\ calls[i - 1].op = "signal"
        /\ calls[i - 1].res.kind = "return"
        /\ calls[i - 1].res.val # None
        /\ calls[i - 1].res.val \notin Range(upload_bands)
        /\ \E j \in 1..(i - 2) :
               /\ calls[j].op = "signal"
               /\ calls[j].res.kind = "return"
               /\ calls[j].res.val # None

\* C19: main has ended normally, or has called logout, only in a state in
\* which the last telemetry read returned upload_bands[0]; logout is called
\* once and only at a normal end.
C19_NormalEndOnlyOnDesired ==
    (pc \in {"done", "exited"} \/ logouts > 0) =>
        /\ lastRead = Desired
        /\ logouts = 1
        /\ pc \in {"done", "exited"}

\* main has ended after the loop
C19_Witness ==
    /\ pc = "done"
    /\ invoked
    /\ lastRead = Desired
    /\ lastLog = "is properly set up."

====
